---- MODULE Spec2Model ----
(***************************************************************************)
(* Model of app/publish/publish.go: the HTTP upload handler that saves a   *)
(* multipart file part to a per-user scratch file, rewrites the JSON-RPC   *)
(* request that came with it to point at the saved file, forwards it to    *)
(* the SDK and removes the scratch file when the handler returns.          *)
(*                                                                         *)
(* The goroutines of Workers serve requests concurrently; every goroutine  *)
(* runs Handler.Handle on one request at a time.  The filesystem (dirs,    *)
(* files) is the only state the goroutines share.                          *)
(***************************************************************************)
EXTENDS Integers, Sequences, FiniteSets, TLC

\* ---------------------------------------------------------------- bounds
MaxRand == 2             \* distinct random strings ioutil.TempFile can draw

\* Two goroutines: the least number with which two requests overlap.
Workers == {1, 2}
Rand == 1..MaxRand

\* ------------------------------------------------------------- constants
fileFieldName == "file"
jsonRPCFieldName == "json_payload"
fileNameParam == "file_path"

UserIDs == {42}
SDKAddr == "sdk.local"
Filenames == {"video.mp4"}

\* The shapes a request body can have, as r.FormFile / r.FormValue see it:
\*   "file"          multipart form with a part named "file"
\*   "nofile"        multipart form without that part
\*   "notmultipart"  not a multipart form at all (urlencoded body or query)
Forms == {"file", "nofile", "notmultipart"}

\* Values of the json_payload field.
PayloadEmpty == ""
PayloadBad == "{\"method\":"
PayloadPlain == "{\"method\":\"publish\",\"params\":{\"name\":\"x\"}}"
PayloadOwnPath == "{\"method\":\"publish\",\"params\":{\"name\":\"x\",\"file_path\":\"/etc/passwd\"}}"
Payloads == {PayloadEmpty, PayloadBad, PayloadPlain, PayloadOwnPath}

NoFile == << >>
NoReq == [method |-> "", params |-> {}]
NoUser == [ok |-> FALSE, id |-> 0, sdk |-> ""]
NoRequest == [form |-> "nofile", filename |-> "", payload |-> PayloadEmpty]
\* The function has not returned yet / neither function has.
NotReturned == [file |-> NoFile, err |-> "-"]
NoReturns == [createFile |-> NotReturned, saveFile |-> NotReturned]

\* ----------------------------------------------------------------- state
VARIABLES
    pc,        \* goroutine -> position in Handle / saveFile / createFile
    rq,        \* goroutine -> the http.Request it serves
    matched,   \* goroutine -> what CanHandle answered for rq
    user,      \* goroutine -> result of auth.FromRequest
    f,         \* goroutine -> name of the *os.File created for the request
    saved,     \* goroutine -> saveFile returned (f, nil)
    ret,       \* goroutine -> what createFile and saveFile returned, if so
    srcOpen,   \* goroutine -> the multipart.File of the part is open
    dstOpen,   \* goroutine -> the descriptor of the scratch file is open
    deferred,  \* goroutine -> the deferred os.Remove is registered
    removed,   \* goroutine -> the deferred os.Remove ran: "no", "ok", "failed"
    rpcReq,    \* goroutine -> the decoded *jsonrpc.RPCRequest
    sent,      \* goroutine -> calls delivered to the SDK for this request
    body,      \* goroutine -> bodies written to the http.ResponseWriter
    status,    \* goroutine -> HTTP status of the response (0: not yet sent)
    sentry,    \* goroutine -> reports made with monitor.ErrorToSentry
    dirs,      \* directories under UploadPath (by user id)
    files,     \* the files that exist under UploadPath: <<path, owner>>,
               \* owner the goroutine whose request created the file, 0 once
               \* that request is over
    trace      \* goroutine -> history: the calls Handle made for the request

vars == <<pc, rq, matched, user, f, saved, ret, srcOpen, dstOpen, deferred, removed,
          rpcReq, sent, body, status, sentry, dirs, files, trace>>

\* ------------------------------------------------------------ filesystem
\* path.Join(h.UploadPath, "%d" userID) + "/" + random + "_" + origFilename
ScratchPath(uid, rnd, name) == <<uid, rnd, name>>
Paths == {ScratchPath(u, r, n) : u \in UserIDs, r \in Rand, n \in Filenames}

\* A file exists at path p.
Exists(p) == \E e \in files : e[1] = p

\* The file goroutine i created for the request it is serving still exists.
OwnFileExists(i) == <<f[i], i>> \in files

\* ------------------------------------------------------ request decoding
\* r.FormFile(fileFieldName): the error it returns for each shape of body
\* (net/http: ErrMissingFile only when the multipart form was parsed and has
\* no such part; a body that is no multipart form fails in ParseMultipartForm).
FormFileErr(r) ==
    CASE r.form = "file" -> "nil"
      [] r.form = "nofile" -> "ErrMissingFile"
      [] OTHER -> "ErrNotMultipart"

\* r.FormValue(key): the first value of the field, "" when absent.
FormValue(r, key) == IF key = jsonRPCFieldName THEN r.payload ELSE ""

\* json.Unmarshal([]byte(payload), &rpcReq)
Unmarshal(payload) ==
    CASE payload = PayloadPlain ->
           [err |-> "nil",
            req |-> [method |-> "publish", params |-> {<<"name", <<"x">>>>}]]
      [] payload = PayloadOwnPath ->
           [err |-> "nil",
            req |-> [method |-> "publish",
                     params |-> {<<"name", <<"x">>>>,
                                 <<fileNameParam, <<"/etc/passwd">>>>}]]
      [] OTHER -> [err |-> "json", req |-> NoReq]

\* Handler.CanHandle
CanHandle(r) ==
    /\ FormFileErr(r) # "ErrMissingFile"
    /\ FormValue(r, jsonRPCFieldName) # ""

\* query.Query.ParamsAsMap: the parameters of the call as a mapping
ParamsAsMap(req) == req.params

Get(params, key) == {kv[2] : kv \in {x \in params : x[1] = key}}

\* The hook as a bug would write it: a client value under file_path is kept.
PreflightHookKeepClient(req, filename) ==
    IF Get(ParamsAsMap(req), fileNameParam) # {}
    THEN req
    ELSE [req EXCEPT !.params = ParamsAsMap(req) \cup {<<fileNameParam, filename>>}]

\* The hook as a bug would write it: the parameters are replaced, not updated.
PreflightHookDropsOthers(req, filename) ==
    [req EXCEPT !.params = {<<fileNameParam, filename>>}]

\* The preflight hook getCaller adds: params[fileNameParam] = filename
PreflightHook(req, filename) ==
    [req EXCEPT !.params =
        {kv \in ParamsAsMap(req) : kv[1] # fileNameParam}
            \cup {<<fileNameParam, filename>>}]

\* ------------------------------------------------------------- responses
AuthErrorBody == "auth_error"            \* rpcerrors.ErrorToJSON(authErr)
InternalErrorBody == "internal_error"    \* rpcerrors.NewInternalError(err).JSON()
ParseErrorBody == "json_parse_error"     \* rpcerrors.NewJSONParseError(err).JSON()
RPCErrorBody == "rpc_error"              \* rpcerrors.ToJSON(err)
ResultBody == "result"                   \* responses.JSONRPCSerialize(rpcRes)

\* w.Write(b): the first write sends the header with status 200
Write(i, b) ==
    /\ body' = [body EXCEPT ![i] = Append(@, b)]
    /\ status' = [status EXCEPT ![i] = IF @ = 0 THEN 200 ELSE @]

\* monitor.ErrorToSentry(err, extra)
ErrorToSentry(i, e, extra) ==
    sentry' = [sentry EXCEPT ![i] = Append(@, [err |-> e, extra |-> extra])]

\* return from Handle: the deferred function, when registered, runs first
Return(i) ==
    pc' = [pc EXCEPT ![i] = IF deferred[i] THEN "cleanup" ELSE "return"]

Goto(i, l) == pc' = [pc EXCEPT ![i] = l]

\* history: Handle (or saveFile, createFile for it) makes the call `name`
Step(i, name) == trace' = [trace EXCEPT ![i] = Append(@, name)]

----------------------------------------------------------------------------
Init ==
    /\ pc = [i \in Workers |-> "idle"]
    /\ rq = [i \in Workers |-> NoRequest]
    /\ matched = [i \in Workers |-> FALSE]
    /\ user = [i \in Workers |-> NoUser]
    /\ f = [i \in Workers |-> NoFile]
    /\ saved = [i \in Workers |-> FALSE]
    /\ ret = [i \in Workers |-> NoReturns]
    /\ srcOpen = [i \in Workers |-> FALSE]
    /\ dstOpen = [i \in Workers |-> FALSE]
    /\ deferred = [i \in Workers |-> FALSE]
    /\ removed = [i \in Workers |-> "no"]
    /\ rpcReq = [i \in Workers |-> NoReq]
    /\ sent = [i \in Workers |-> << >>]
    /\ body = [i \in Workers |-> << >>]
    /\ status = [i \in Workers |-> 0]
    /\ sentry = [i \in Workers |-> << >>]
    /\ dirs = {}
    /\ files = {}
    /\ trace = [i \in Workers |-> << >>]

Requests ==
    [form : {"file"}, filename : Filenames, payload : Payloads]
        \cup [form : Forms \ {"file"}, filename : {""}, payload : Payloads]

\* The router evaluates the MatcherFunc on an incoming request and the
\* request is handed to Handle (Handle does not rely on the answer).
Route(i) ==
    /\ pc[i] = "idle"
    /\ \E r \in Requests :
         /\ rq' = [rq EXCEPT ![i] = r]
         /\ matched' = [matched EXCEPT ![i] = CanHandle(r)]
    /\ Goto(i, "handle")
    /\ UNCHANGED <<user, f, saved, ret, srcOpen, dstOpen, deferred, removed, rpcReq,
                   sent, body, status, sentry, dirs, files, trace>>

\* ------------------------------------------------------------ Handle
\* What auth.FromRequest and proxy.GetAuthError can give for a request.
AuthResults ==
    {NoUser} \cup [ok : {TRUE}, id : UserIDs, sdk : {"", SDKAddr}]

\* proxy.GetAuthError(user, err) != nil
GetAuthError(a) == ~a.ok

\* auth.SDKAddress(user)
SDKAddress(a) == a.sdk

\* The auth-error exit with its return statement forgotten.
AuthFailedFallThrough(i) ==
    /\ Write(i, AuthErrorBody)
    /\ Goto(i, "FormFile")

\* Handle, the exit on an authentication error
AuthFailed(i) ==
    /\ Write(i, AuthErrorBody)
    /\ Return(i)

\* The missing-address exit with its return statement forgotten.
NoSDKFallThrough(i) ==
    /\ Write(i, InternalErrorBody)
    /\ Goto(i, "FormFile")

\* Handle, the exit on a user without SDK address
NoSDK(i) ==
    /\ Write(i, InternalErrorBody)
    /\ Return(i)

\* Handle up to the call of saveFile
Authenticate(i) ==
    /\ pc[i] = "handle"
    /\ Step(i, "FromRequest")
    /\ \E a \in AuthResults :
         /\ user' = [user EXCEPT ![i] = a]
         /\ IF GetAuthError(a) THEN AuthFailed(i)
            ELSE IF SDKAddress(a) = "" THEN NoSDK(i)
            ELSE Goto(i, "FormFile") /\ UNCHANGED <<body, status>>
    /\ UNCHANGED <<rq, matched, f, saved, ret, srcOpen, dstOpen, deferred, removed,
                   rpcReq, sent, sentry, dirs, files>>

\* createFile: return nil, err (after MkdirAll), or the (nil, err) of
\* ioutil.TempFile; saveFile passes it on: return nil, err
CreateFileFails(i, e) ==
    ret' = [ret EXCEPT ![i] = [createFile |-> [file |-> NoFile, err |-> e],
                               saveFile |-> [file |-> NoFile, err |-> e]]]

\* createFile: the (f, nil) of ioutil.TempFile
CreateFileReturns(i, p) ==
    ret' = [ret EXCEPT ![i].createFile = [file |-> p, err |-> "nil"]]

\* saveFile returning the handle it holds along with the error.
SaveFileFailsWithHandle(i, e) ==
    ret' = [ret EXCEPT ![i].saveFile = [file |-> f[i], err |-> e]]

\* saveFile: return nil, err
SaveFileFails(i, e) ==
    ret' = [ret EXCEPT ![i].saveFile = [file |-> NoFile, err |-> e]]

\* saveFile: return f, nil
SaveFileReturns(i) ==
    ret' = [ret EXCEPT ![i].saveFile = [file |-> f[i], err |-> "nil"]]

\* The exit on an error of saveFile without the report to sentry.
SaveFailedUnreported(i, e) ==
    /\ Write(i, InternalErrorBody)
    /\ Return(i)
    /\ UNCHANGED sentry

\* The exit on an error of saveFile with the write of the response forgotten.
SaveFailedSilently(i, e) ==
    /\ ErrorToSentry(i, e, NoFile)
    /\ Return(i)
    /\ UNCHANGED <<body, status>>

\* Handle, the exit on an error of saveFile.  saveFile returns (nil, err):
\* Handle has no handle to remove and registers no cleanup.
SaveFailed(i, e) ==
    /\ ErrorToSentry(i, e, NoFile)
    /\ Write(i, InternalErrorBody)
    /\ Return(i)

\* The error of FormFile ignored: saveFile goes on to createFile.
PartMissingIgnored(i) ==
    /\ Goto(i, "MkdirAll")
    /\ UNCHANGED <<srcOpen, body, status, sentry, ret>>

\* saveFile: if err != nil { return nil, err } after r.FormFile
PartMissing(i) ==
    /\ SaveFileFails(i, FormFileErr(rq[i]))
    /\ SaveFailed(i, FormFileErr(rq[i]))
    /\ UNCHANGED srcOpen

\* saveFile: r.FormFile(fileFieldName)
FormFile(i) ==
    /\ pc[i] = "FormFile"
    /\ Step(i, "FormFile")
    /\ IF FormFileErr(rq[i]) # "nil"
       THEN PartMissing(i)
       ELSE /\ srcOpen' = [srcOpen EXCEPT ![i] = TRUE]
            /\ Goto(i, "MkdirAll")
            /\ UNCHANGED <<body, status, sentry, ret>>
    /\ UNCHANGED <<rq, matched, user, f, saved, dstOpen, deferred, removed,
                   rpcReq, sent, dirs, files>>

\* The deferred close of the part forgotten.
CloseSourceForgotten(i) == UNCHANGED srcOpen

\* saveFile: defer file.Close(), run at every return after FormFile succeeded
CloseSource(i) == srcOpen' = [srcOpen EXCEPT ![i] = FALSE]

\* createFile: os.MkdirAll(path, os.ModePerm)
MkdirAll(i) ==
    /\ pc[i] = "MkdirAll"
    /\ Step(i, "MkdirAll")
    /\ \/ /\ dirs' = dirs \cup {user[i].id}
          /\ Goto(i, "TempFile")
          /\ UNCHANGED <<srcOpen, body, status, sentry, ret>>
       \/ /\ CreateFileFails(i, "mkdir")
          /\ SaveFailed(i, "mkdir")
          /\ CloseSource(i)
          /\ UNCHANGED dirs
    /\ UNCHANGED <<rq, matched, user, f, saved, dstOpen, deferred, removed,
                   rpcReq, sent, files>>

\* ioutil.TempFile without O_EXCL: any random string is taken.
AnyNames(dir, name) == Rand

\* ioutil.TempFile opens with O_CREATE|O_EXCL and draws again while the name
\* is taken: the random strings it can end with.
FreshNames(dir, name) ==
    {r \in Rand : ~Exists(ScratchPath(dir, r, name))}

\* createFile: ioutil.TempFile(path, "*_" + origFilename)
TempFile(i) ==
    /\ pc[i] = "TempFile"
    /\ Step(i, "TempFile")
    /\ \/ /\ user[i].id \in dirs
          /\ \E r \in FreshNames(user[i].id, rq[i].filename) :
               LET p == ScratchPath(user[i].id, r, rq[i].filename) IN
               /\ files' = files \cup {<<p, i>>}
               /\ f' = [f EXCEPT ![i] = p]
               /\ CreateFileReturns(i, p)
          /\ dstOpen' = [dstOpen EXCEPT ![i] = TRUE]
          /\ Goto(i, "Copy")
          /\ UNCHANGED <<srcOpen, body, status, sentry>>
       \/ /\ CreateFileFails(i, "tempfile")
          /\ SaveFailed(i, "tempfile")
          /\ CloseSource(i)
          /\ UNCHANGED <<f, dstOpen, files>>
    /\ UNCHANGED <<rq, matched, user, saved, deferred, removed, rpcReq, sent,
                   dirs>>

\* saveFile: io.Copy(f, file)
Copy(i) ==
    /\ pc[i] = "Copy"
    /\ Step(i, "Copy")
    /\ \/ /\ Goto(i, "Close")
          /\ UNCHANGED <<srcOpen, body, status, sentry, ret>>
       \/ /\ SaveFileFails(i, "copy")
          /\ SaveFailed(i, "copy")
          /\ CloseSource(i)
    /\ UNCHANGED <<rq, matched, user, f, saved, dstOpen, deferred, removed,
                   rpcReq, sent, dirs, files>>

\* The defer statement forgotten: nothing is registered.
RegisterNothing(i) == UNCHANGED deferred

\* Handle: defer func() { os.Remove(f.Name()) ... }()
RegisterCleanup(i) == deferred' = [deferred EXCEPT ![i] = TRUE]

\* saveFile: f.Close() and the return to Handle
Close(i) ==
    /\ pc[i] = "Close"
    /\ Step(i, "Close")
    /\ dstOpen' = [dstOpen EXCEPT ![i] = FALSE]
    /\ CloseSource(i)
    /\ \/ /\ saved' = [saved EXCEPT ![i] = TRUE]
          /\ SaveFileReturns(i)
          /\ RegisterCleanup(i)
          /\ Goto(i, "Parse")
          /\ UNCHANGED <<body, status, sentry>>
       \/ /\ SaveFileFails(i, "close")
          /\ SaveFailed(i, "close")
          /\ UNCHANGED <<saved, deferred>>
    /\ UNCHANGED <<rq, matched, user, f, removed, rpcReq, sent, dirs, files>>

\* The parse-error exit writing the wrong kind of error.
ParseFailedAsInternal(i) ==
    /\ Write(i, InternalErrorBody)
    /\ Return(i)

\* The parse-error exit with its return statement forgotten.
ParseFailedFallThrough(i) ==
    /\ Write(i, ParseErrorBody)
    /\ Goto(i, "Call")

\* Handle, the exit on a json_payload that does not decode
ParseFailed(i) ==
    /\ Write(i, ParseErrorBody)
    /\ Return(i)

\* Handle: json.Unmarshal([]byte(r.FormValue(jsonRPCFieldName)), &rpcReq)
ParseEnvelope(i) ==
    /\ pc[i] = "Parse"
    /\ Step(i, "Unmarshal")
    /\ LET u == Unmarshal(FormValue(rq[i], jsonRPCFieldName)) IN
       IF u.err # "nil"
       THEN /\ ParseFailed(i)
            /\ UNCHANGED rpcReq
       ELSE /\ rpcReq' = [rpcReq EXCEPT ![i] = u.req]
            /\ Goto(i, "Call")
            /\ UNCHANGED <<body, status>>
    /\ UNCHANGED <<rq, matched, user, f, saved, ret, srcOpen, dstOpen, deferred,
                   removed, sent, sentry, dirs, files>>

\* What the hook returns besides its effect on the query: return nil, nil
HookReturn(filename) == [response |-> "nil", err |-> "nil"]

\* getCaller: a caller for the address with the one hook added, a closure
\* over filename (a hook is known by the filename it holds)
getCaller(sdkAddress, filename, userID) ==
    [addr |-> sdkAddress, userID |-> userID, hooks |-> <<filename>>]

\* query.Caller.Call, the preflight part: the hooks run in order on the
\* query; a hook that returns a response or an error ends the call at once.
RECURSIVE RunHooks(_, _)
RunHooks(hooks, req) ==
    IF hooks = << >> THEN [stopped |-> FALSE, req |-> req]
    ELSE LET r == HookReturn(Head(hooks)) IN
         IF r.response # "nil" \/ r.err # "nil"
         THEN [stopped |-> TRUE, req |-> req]
         ELSE RunHooks(Tail(hooks), PreflightHook(req, Head(hooks)))

\* query.Caller.Call up to the dispatch: the preflight hooks run on the
\* query, then the request goes to the SDK at the caller's address.
CallSend(i, c) ==
    LET out == RunHooks(c.hooks, rpcReq[i]) IN
    sent' = [sent EXCEPT ![i] =
                IF out.stopped THEN @
                ELSE Append(@, [addr |-> c.addr, req |-> out.req,
                                hooks |-> Len(c.hooks)])]

\* Handle: c := getCaller(auth.SDKAddress(user), f.Name(), ...); c.Call(rpcReq)
Dispatch(i) ==
    /\ pc[i] = "Call"
    /\ Step(i, "Call")
    /\ CallSend(i, getCaller(SDKAddress(user[i]), f[i], user[i].id))
    /\ Goto(i, "Calling")
    /\ UNCHANGED <<rq, matched, user, f, saved, ret, srcOpen, dstOpen, deferred,
                   removed, rpcReq, body, status, sentry, dirs, files>>

\* The exit on an error of the call without the report to sentry.
CallFailedUnreported(i) ==
    /\ Write(i, RPCErrorBody)
    /\ Return(i)
    /\ UNCHANGED sentry

\* Handle, the exit on an error of c.Call
CallFailed(i) ==
    /\ ErrorToSentry(i, "rpc", NoFile)
    /\ Write(i, RPCErrorBody)
    /\ Return(i)

\* Handle: the result of c.Call(rpcReq)
CallReturn(i) ==
    /\ pc[i] = "Calling"
    /\ UNCHANGED trace
    /\ \/ /\ Goto(i, "Serialize")
          /\ UNCHANGED <<body, status, sentry>>
       \/ CallFailed(i)
    /\ UNCHANGED <<rq, matched, user, f, saved, ret, srcOpen, dstOpen, deferred,
                   removed, rpcReq, sent, dirs, files>>

\* Handle: responses.JSONRPCSerialize(rpcRes) and the final write
Serialize(i) ==
    /\ pc[i] = "Serialize"
    /\ Step(i, "Serialize")
    /\ \/ /\ Write(i, ResultBody)
          /\ UNCHANGED sentry
       \/ /\ ErrorToSentry(i, "marshal", NoFile)
          /\ Write(i, InternalErrorBody)
    /\ Return(i)
    /\ UNCHANGED <<rq, matched, user, f, saved, ret, srcOpen, dstOpen, deferred,
                   removed, rpcReq, sent, dirs, files>>

\* A failed removal told to the client as well: a second body is written.
RemoveFailedToldToClient(i) ==
    /\ ErrorToSentry(i, "remove", f[i])
    /\ Write(i, InternalErrorBody)

\* The deferred function, os.Remove failed:
\* monitor.ErrorToSentry(err, map[string]string{"file_path": f.Name()})
RemoveFailed(i) ==
    /\ ErrorToSentry(i, "remove", f[i])
    /\ UNCHANGED <<body, status>>

\* The removal taking the whole directory of the user with it.
RemoveUserDir(i) == files' = {e \in files : e[1][1] # f[i][1]}

\* os.Remove(f.Name()): the file of that path, and nothing else, is unlinked
Remove(i) == files' = {e \in files : e[1] # f[i]}

\* The deferred function of Handle: os.Remove(f.Name()), which can fail
Cleanup(i) ==
    /\ pc[i] = "cleanup"
    /\ Step(i, "Remove")
    /\ \/ /\ Exists(f[i])
          /\ Remove(i)
          /\ removed' = [removed EXCEPT ![i] = "ok"]
          /\ UNCHANGED <<sentry, body, status>>
       \/ /\ RemoveFailed(i)
          /\ removed' = [removed EXCEPT ![i] = "failed"]
          /\ UNCHANGED files
    /\ Goto(i, "return")
    /\ UNCHANGED <<rq, matched, user, f, saved, ret, srcOpen, dstOpen, deferred,
                   rpcReq, sent, dirs>>

\* Handle has returned; the goroutine is free for the next request.
Finish(i) ==
    /\ pc[i] = "return"
    /\ Goto(i, "idle")
    /\ rq' = [rq EXCEPT ![i] = NoRequest]
    /\ matched' = [matched EXCEPT ![i] = FALSE]
    /\ user' = [user EXCEPT ![i] = NoUser]
    /\ f' = [f EXCEPT ![i] = NoFile]
    /\ saved' = [saved EXCEPT ![i] = FALSE]
    /\ ret' = [ret EXCEPT ![i] = NoReturns]
    /\ srcOpen' = [srcOpen EXCEPT ![i] = FALSE]
    /\ dstOpen' = [dstOpen EXCEPT ![i] = FALSE]
    /\ deferred' = [deferred EXCEPT ![i] = FALSE]
    /\ removed' = [removed EXCEPT ![i] = "no"]
    /\ rpcReq' = [rpcReq EXCEPT ![i] = NoReq]
    /\ sent' = [sent EXCEPT ![i] = << >>]
    /\ body' = [body EXCEPT ![i] = << >>]
    /\ status' = [status EXCEPT ![i] = 0]
    /\ sentry' = [sentry EXCEPT ![i] = << >>]
    /\ trace' = [trace EXCEPT ![i] = << >>]
    /\ files' = {IF e[2] = i THEN <<e[1], 0>> ELSE e : e \in files}
    /\ UNCHANGED dirs

Next ==
    \E i \in Workers :
        \/ Route(i)
        \/ Authenticate(i)
        \/ FormFile(i)
        \/ MkdirAll(i)
        \/ TempFile(i)
        \/ Copy(i)
        \/ Close(i)
        \/ ParseEnvelope(i)
        \/ Dispatch(i)
        \/ CallReturn(i)
        \/ Serialize(i)
        \/ Cleanup(i)
        \/ Finish(i)

Spec == Init /\ [][Next]_vars

TypeOK ==
    /\ files \subseteq Paths \X ({0} \cup Workers)
    /\ \A i \in Workers : f[i] \in Paths \cup {NoFile}
    /\ dirs \subseteq UserIDs

----------------------------------------------------------------------------
\* Handle has returned for the request of goroutine i.
Returned(i) == pc[i] = "return"
\* The request has a part under the field name "file".
HasFilePart(r) == r.form = "file"
Decodes(r) == Unmarshal(FormValue(r, jsonRPCFieldName)).err = "nil"
Called(i, name) == \E k \in 1..Len(trace[i]) : trace[i][k] = name
Reported(i, e, extra) ==
    \E k \in 1..Len(sentry[i]) : sentry[i][k] = [err |-> e, extra |-> extra]

\* C1 (as stated): once saveFile has succeeded, the scratch file is gone from
\* the disk when Handle returns, whichever exit was taken.
C1_ScratchFileGoneAtReturn ==
    \A i \in Workers : (Returned(i) /\ saved[i]) => ~OwnFileExists(i)

\* C1 (amended): once saveFile has succeeded, the deferred os.Remove of the
\* scratch file has run when Handle returns, whichever exit was taken; the file
\* is gone when the removal succeeded, and when it failed the file is still
\* there and the failure was reported with the file's path.
C1_ScratchFileRemovalAtReturn ==
    \A i \in Workers :
        (Returned(i) /\ saved[i]) =>
            /\ removed[i] \in {"ok", "failed"}
            /\ removed[i] = "ok" => ~OwnFileExists(i)
            /\ removed[i] = "failed" =>
                 (OwnFileExists(i) /\ Reported(i, "remove", f[i]))

\* C1 witness: Handle returned on the parse-error exit with the file removed.
C1_Witness ==
    \E i \in Workers :
        /\ Returned(i) /\ saved[i] /\ removed[i] = "ok"
        /\ body[i] = <<ParseErrorBody>>

\* C2: when the copy into the created scratch file, or its close, fails, the
\* file is deleted by the handler's cleanup and is gone when Handle returns.
C2_PartialFileGoneAtReturn ==
    \A i \in Workers :
        (Returned(i) /\ f[i] # NoFile /\ ~saved[i]) => ~OwnFileExists(i)

\* C3: every call delivered to the SDK carries, under file_path, exactly the
\* path of the scratch file saved for the same request.
C3_FilePathIsSavedFile ==
    \A i \in Workers :
        \A k \in 1..Len(sent[i]) :
            /\ saved[i]
            /\ Get(sent[i][k].req.params, fileNameParam) = {f[i]}

\* C3 witness: a call is under way whose client sent its own file_path.
C3_Witness ==
    \E i \in Workers :
        /\ pc[i] = "Calling"
        /\ rq[i].payload = PayloadOwnPath
        /\ Len(sent[i]) = 1

\* C4: a request of a user without SDK address gets an internal error and
\* Handle returns at once: no saveFile, no directory, no file, no call.
C4_NoSDKAddressRejected ==
    \A i \in Workers :
        (user[i].ok /\ SDKAddress(user[i]) = "") =>
            /\ Returned(i)
            /\ body[i] = <<InternalErrorBody>>
            /\ trace[i] = <<"FromRequest">>
            /\ f[i] = NoFile
            /\ \A e \in files : e[2] # i
            /\ sent[i] = << >>

\* C4 witness: such a request has been answered.
C4_Witness ==
    \E i \in Workers :
        Returned(i) /\ user[i].ok /\ SDKAddress(user[i]) = "" /\ rq[i].form = "file"

\* C5: a request whose json_payload does not decode is never dispatched; once
\* its upload is saved the response is a JSON parse error, the cleanup was
\* registered before the decoding and has run when Handle returns.
C5_ParseErrorNoDispatch ==
    \A i \in Workers :
        ~Decodes(rq[i]) =>
            /\ sent[i] = << >>
            /\ ~Called(i, "Call")
            /\ Called(i, "Unmarshal") =>
                 /\ body[i] = <<ParseErrorBody>>
                 /\ deferred[i]
                 /\ pc[i] \in {"cleanup", "return"}
                 /\ Returned(i) => Called(i, "Remove")

\* C5 witness: a request with a non-empty undecodable payload has returned.
C5_Witness ==
    \E i \in Workers :
        Returned(i) /\ rq[i].payload = PayloadBad /\ Called(i, "Unmarshal")

\* C6: CanHandle answers true exactly for the requests with a part named
\* file and a non-empty json_payload.
C6_CanHandleIffFileAndPayload ==
    \A i \in Workers :
        pc[i] = "handle" =>
            (matched[i] <=>
                (HasFilePart(rq[i]) /\ FormValue(rq[i], jsonRPCFieldName) # ""))

\* C7 (as stated): two calls of createFile for the same user and the same
\* original filename never return the same path.
C7_PathsNeverRepeat ==
    \A i, j \in Workers :
        (/\ i # j
         /\ f[i] # NoFile /\ f[j] # NoFile
         /\ user[i].id = user[j].id
         /\ rq[i].filename = rq[j].filename) => f[i] # f[j]

\* C7 (amended): two calls of createFile for the same user and the same
\* original filename return different paths as long as the file of the
\* earlier one still exists: two scratch files that exist together never
\* share a path.
C7_ExistingFilesDistinct ==
    /\ \A i, j \in Workers :
        (/\ i # j
         /\ OwnFileExists(i) /\ OwnFileExists(j)
         /\ user[i].id = user[j].id
         /\ rq[i].filename = rq[j].filename) => f[i] # f[j]
    /\ \A d, e \in files : d[1] = e[1] => d = e

\* C7 witness: two requests of one user with one filename hold their files.
C7_Witness ==
    \E i, j \in Workers :
        /\ i # j
        /\ OwnFileExists(i) /\ OwnFileExists(j)
        /\ user[i].id = user[j].id
        /\ rq[i].filename = rq[j].filename

\* C8: on every path through Handle exactly one body is written, with status
\* 200, and it is written before Handle leaves; nothing is written earlier.
C8_ExactlyOneBody ==
    \A i \in Workers :
        /\ status[i] \in {0, 200}
        /\ pc[i] \in {"cleanup", "return"} =>
             (Len(body[i]) = 1 /\ status[i] = 200)
        /\ pc[i] \notin {"cleanup", "return"} =>
             (body[i] = << >> /\ status[i] = 0)
        /\ (Returned(i) /\ body[i] # <<ResultBody>>) =>
             body[i][1] \in {AuthErrorBody, InternalErrorBody, ParseErrorBody,
                             RPCErrorBody}

\* C8 witness: Handle returned after saveFile failed on the close.
C8_Witness ==
    \E i \in Workers :
        Returned(i) /\ Reported(i, "close", NoFile) /\ Len(body[i]) = 1

\* C9 (as stated): saveFile on a request without file part fails with the
\* missing-file error and touches no directory and no file.
C9_MissingFileError ==
    \A i \in Workers :
        (Called(i, "FormFile") /\ ~HasFilePart(rq[i])) =>
            /\ Reported(i, "ErrMissingFile", NoFile)
            /\ trace[i] = <<"FromRequest", "FormFile">>
            /\ f[i] = NoFile

\* C9 (amended): saveFile on a request without file part fails with the error
\* of r.FormFile (http.ErrMissingFile for a multipart form without the part,
\* the error of parsing, as http.ErrNotMultipart, for a body that is no
\* multipart form) and touches no directory and no file.
C9_FormFileErrorBeforeFilesystem ==
    \A i \in Workers :
        (Called(i, "FormFile") /\ ~HasFilePart(rq[i])) =>
            /\ Reported(i, FormFileErr(rq[i]), NoFile)
            /\ rq[i].form = "nofile" => Reported(i, "ErrMissingFile", NoFile)
            /\ Returned(i)
            /\ trace[i] = <<"FromRequest", "FormFile">>
            /\ f[i] = NoFile
            /\ \A e \in files : e[2] # i

\* C9 witness: saveFile has failed on a multipart form without the part.
C9_Witness ==
    \E i \in Workers :
        Returned(i) /\ rq[i].form = "nofile" /\ Called(i, "FormFile")

\* C10: when authentication fails Handle answers with the auth error and
\* returns at once: no saveFile, no file, no call, no cleanup registered.
C10_AuthErrorRejected ==
    \A i \in Workers :
        (Called(i, "FromRequest") /\ GetAuthError(user[i])) =>
            /\ Returned(i)
            /\ body[i] = <<AuthErrorBody>>
            /\ trace[i] = <<"FromRequest">>
            /\ f[i] = NoFile
            /\ \A e \in files : e[2] # i
            /\ sent[i] = << >>
            /\ ~deferred[i]

\* C10 witness: a request with a file part failed authentication.
C10_Witness ==
    \E i \in Workers :
        Returned(i) /\ GetAuthError(user[i]) /\ rq[i].form = "file"


\* The calls of one request in the order of the pipeline: authenticate,
\* save the upload (FormFile .. Close), parse, dispatch, serialize.
PipelineOrder ==
    <<"FromRequest", "FormFile", "MkdirAll", "TempFile", "Copy", "Close",
      "Unmarshal", "Call", "Serialize">>

\* C11: the steps of a request run in pipeline order, each at most once; a
\* call is dispatched at most once and only after authentication, save and
\* parse succeeded; serialization only after a successful dispatch; after a
\* failed step (the response is written) nothing but the cleanup runs.
C11_StepsInOrder ==
    \A i \in Workers :
        LET t == trace[i]
            n == Len(t)
            m == IF n > 0 /\ t[n] = "Remove" THEN n - 1 ELSE n
        IN  /\ m <= Len(PipelineOrder)
            /\ \A k \in 1..m : t[k] = PipelineOrder[k]
            /\ Len(sent[i]) <= 1
            /\ Len(sent[i]) = 1 => Called(i, "Call")
            /\ Called(i, "Call") =>
                 /\ ~GetAuthError(user[i]) /\ SDKAddress(user[i]) # ""
                 /\ saved[i]
                 /\ Decodes(rq[i])
            /\ Called(i, "Serialize") =>
                 (Called(i, "Call") /\ ~Reported(i, "rpc", NoFile))
            /\ body[i] # << >> => pc[i] \in {"cleanup", "return"}

\* C11 witness: a request went through all five steps and returned.
C11_Witness ==
    \E i \in Workers :
        /\ Returned(i)
        /\ body[i] = <<ResultBody>>
        /\ trace[i] = PipelineOrder \o <<"Remove">>


\* C12: the scratch file is removed after the response body is written; a
\* failed removal is reported with the file's path and leaves the response
\* (body and status) as it was.
C12_RemovalAfterResponse ==
    [][\A i \in Workers :
          (pc[i] = "cleanup" /\ pc'[i] # "cleanup") =>
              /\ Len(body[i]) = 1
              /\ body'[i] = body[i]
              /\ status'[i] = status[i]
              /\ removed'[i] \in {"ok", "failed"}
              /\ removed'[i] = "failed" =>
                   sentry'[i] =
                       Append(sentry[i], [err |-> "remove", extra |-> f[i]])
              /\ removed'[i] = "ok" => sentry'[i] = sentry[i]]_vars

\* C12 witness: the removal failed after the result was written.
C12_Witness ==
    \E i \in Workers :
        /\ Returned(i)
        /\ removed[i] = "failed"
        /\ body[i] = <<ResultBody>>
        /\ Reported(i, "remove", f[i])


\* The call of request i came back with an error and Handle has acted on it.
CallErrorHandled(i) ==
    /\ Called(i, "Call")
    /\ pc[i] \in {"cleanup", "return"}
    /\ ~Called(i, "Serialize")

\* C13 (as stated): on an error of the downstream call Handle reports the
\* error, writes the translated error, skips serialization, and the scratch
\* file is deleted when Handle returns.
C13_CallErrorFileDeleted ==
    \A i \in Workers :
        CallErrorHandled(i) =>
            /\ Reported(i, "rpc", NoFile)
            /\ body[i] = <<RPCErrorBody>>
            /\ Returned(i) => ~OwnFileExists(i)

\* C13 (amended): on an error of the downstream call Handle reports the
\* error, writes the translated error, skips serialization, and the deferred
\* os.Remove of the scratch file still runs: the file is gone when Handle
\* returns unless that removal failed, which is reported.
C13_CallErrorFileRemovalRuns ==
    \A i \in Workers :
        CallErrorHandled(i) =>
            /\ Reported(i, "rpc", NoFile)
            /\ body[i] = <<RPCErrorBody>>
            /\ deferred[i]
            /\ Returned(i) =>
                 /\ Called(i, "Remove")
                 /\ removed[i] = "ok" => ~OwnFileExists(i)
                 /\ removed[i] # "ok" =>
                      (removed[i] = "failed" /\ Reported(i, "remove", f[i]))

\* C13 witness: the call failed and the file was removed at return.
C13_Witness ==
    \E i \in Workers :
        /\ Returned(i)
        /\ CallErrorHandled(i)
        /\ removed[i] = "ok"


\* saveFile is running for the request of goroutine i, past r.FormFile.
InSaveFile(i) == pc[i] \in {"MkdirAll", "TempFile", "Copy", "Close"}

\* C14: saveFile closes the part on every exit taken after it was opened, and
\* when it returns a handle the scratch file has been closed: the rest of
\* Handle sees a closed file known by its path.
C14_SourceClosedDestClosedOnSuccess ==
    \A i \in Workers :
        /\ ~InSaveFile(i) => ~srcOpen[i]
        /\ saved[i] => (~dstOpen[i] /\ f[i] \in Paths)

\* C14 witness: saveFile failed in io.Copy, after the part was opened.
C14_Witness ==
    \E i \in Workers :
        Returned(i) /\ Reported(i, "copy", NoFile) /\ ~srcOpen[i]

\* C18: once saveFile has returned, with a handle or with an error, neither
\* the part nor the scratch file is still open.
C18_NoOpenDescriptorAfterSave ==
    \A i \in Workers :
        ~InSaveFile(i) => (~srcOpen[i] /\ ~dstOpen[i])


\* The parameters of a call other than file_path.
OtherParams(params) == {kv \in params : kv[1] # fileNameParam}

\* C15: the caller of getCaller carries exactly one hook; the hook never ends
\* the call (every dispatch reaches the SDK), sets file_path, and leaves the
\* method and every other parameter of the client as they were.
C15_OneHookOnlyFilePath ==
    \A i \in Workers :
        /\ Called(i, "Call") => Len(sent[i]) = 1
        /\ \A k \in 1..Len(sent[i]) :
             /\ sent[i][k].hooks = 1
             /\ sent[i][k].req.method = rpcReq[i].method
             /\ OtherParams(sent[i][k].req.params) = OtherParams(rpcReq[i].params)
             /\ Get(sent[i][k].req.params, fileNameParam) = {f[i]}
             /\ sent[i][k].addr = SDKAddress(user[i])

\* C15 witness: a call with a parameter besides file_path has reached the SDK.
C15_Witness ==
    \E i \in Workers :
        /\ Len(sent[i]) = 1
        /\ rq[i].payload = PayloadPlain
        /\ <<"name", <<"x">>>> \in sent[i][1].req.params


\* saveFile has returned an error to Handle for the request of goroutine i.
SaveFileFailed(i) == ret[i].saveFile.err \notin {"-", "nil"}

\* C16: when saveFile fails, whatever the reason, Handle reports that error to
\* sentry, writes the internal-error response and returns; the envelope is not
\* parsed and nothing is sent to the SDK.
C16_SaveFailureReportedNoDispatch ==
    \A i \in Workers :
        SaveFileFailed(i) =>
            /\ Returned(i)
            /\ ret[i].saveFile.err \in {"ErrMissingFile", "ErrNotMultipart",
                                        "mkdir", "tempfile", "copy", "close"}
            /\ sentry[i] = <<[err |-> ret[i].saveFile.err, extra |-> NoFile]>>
            /\ body[i] = <<InternalErrorBody>>
            /\ ~Called(i, "Unmarshal")
            /\ ~Called(i, "Call")
            /\ sent[i] = << >>

\* C16 witness: one request returned after the copy failed while another
\* returned after the directory could not be created.
C16_Witness ==
    \E i, j \in Workers :
        /\ Returned(i) /\ ret[i].saveFile.err = "copy"
        /\ Returned(j) /\ ret[j].saveFile.err = "mkdir"

\* One return of createFile or saveFile is a handle or an error, never both
\* and never neither.
HandleXorError(r) == (r.file # NoFile) # (r.err # "nil")

\* C17: every return of createFile and of saveFile is a handle without an error
\* or an error without a handle, and Handle has registered the removal of the
\* scratch file exactly when saveFile returned without an error.
C17_HandleXorErrorReturned ==
    \A i \in Workers :
        /\ ret[i].createFile # NotReturned => HandleXorError(ret[i].createFile)
        /\ ret[i].saveFile # NotReturned => HandleXorError(ret[i].saveFile)
        /\ ret[i].saveFile.err = "nil" => ret[i].saveFile.file = f[i]
        /\ ~InSaveFile(i) => (deferred[i] <=> ret[i].saveFile.err = "nil")

\* C17 witness: createFile returned a handle to one request, whose saveFile
\* then failed on the close, while the saveFile of another request succeeded
\* and its removal is registered.
C17_Witness ==
    \E i, j \in Workers :
        /\ ret[i].createFile.err = "nil" /\ ret[i].saveFile.err = "close"
        /\ Returned(i) /\ ~deferred[i]
        /\ ret[j].saveFile.err = "nil" /\ deferred[j] /\ pc[j] = "Calling"

\* Goroutine i takes the step of its deferred removal.
CleanupStep(i) == pc[i] = "cleanup" /\ pc'[i] = "return"

\* C19: under every interleaving of the requests, those of one user with one
\* filename included, the scratch file of a request is on the disk from the
\* success of its saveFile until its own deferred removal runs, and a file
\* leaves the disk only in the removal of the request that created it.
C19_OwnFileUntilOwnCleanup ==
    /\ [](\A i \in Workers :
            (saved[i] /\ removed[i] = "no") => OwnFileExists(i))
    /\ [][\A e \in files :
            (~Exists(e[1]))' =>
                \E i \in Workers :
                    CleanupStep(i) /\ e = <<f[i], i>> /\ saved[i]]_vars

\* C19 witness: two requests of the same user with the same filename are both
\* in their downstream call, each with its own scratch file on the disk.
C19_Witness ==
    \E i, j \in Workers :
        /\ i # j
        /\ pc[i] = "Calling" /\ pc[j] = "Calling"
        /\ user[i].id = user[j].id /\ rq[i].filename = rq[j].filename
        /\ OwnFileExists(i) /\ OwnFileExists(j) /\ f[i] # f[j]

====
